---- MODULE Spec2Model ----
(***************************************************************************)
(* zod-http: the validated request executor zFetch (src/src/core.ts) with  *)
(* its retry loop, timeout timer and external cancellation signal, and the *)
(* single-pass variants zFetch.stream and zFetch.upload; and the request   *)
(* that createZodFetchClient (src/src/client.ts) and the head of zFetch    *)
(* build: URL, headers and serialized body.                                *)
(***************************************************************************)
EXTENDS Integers, Sequences, FiniteSets, TLC

(***************************************************************************)
(* Bounds of the model                                                     *)
(***************************************************************************)
MaxAttempts == 2

MaxChunks == 3

\* more network calls than any retry budget allows: a cap on the loop only
CallCap == MaxAttempts + 2

(***************************************************************************)
(* Values: JSON values, texts, errors                                      *)
(***************************************************************************)
\* the optional number fields of ZodFetchError / ZodFetchRetryOptions when absent
NoStatus == -1

DefaultDelay == 1000

\* a text is a sequence of tokens; <<>> is the empty string
Val(t, s, count, extra) == [t |-> t, s |-> s, count |-> count, extra |-> extra]

Undefined == Val("undefined", <<>>, 0, FALSE)

StrVal(text) == Val("string", text, 0, FALSE)

ObjVal(count, extra) == Val("object", <<>>, count, extra)

ErrVal(e) == Val("error", <<e.name, e.message>>, 0, FALSE)

\* JSON.parse: the texts that are JSON documents, and the value each denotes
JSONParse(text) ==
    CASE text = <<"{count:1}">> -> [ok |-> TRUE, val |-> ObjVal(1, FALSE)]
      [] text = <<"{count:2}">> -> [ok |-> TRUE, val |-> ObjVal(2, FALSE)]
      [] text = <<"{count:1,x:0}">> -> [ok |-> TRUE, val |-> ObjVal(1, TRUE)]
      [] OTHER -> [ok |-> FALSE, val |-> Undefined]

\* try { JSON.parse(text) } catch { text }
ParseOrText(text) ==
    IF JSONParse(text).ok THEN JSONParse(text).val ELSE StrVal(text)

\* the schemas: z.object({count: z.number()}) strips unknown keys, z.string()
Schemas == {"count", "string"}

SafeParse(schema, d) ==
    CASE schema = "count" /\ d.t = "object" ->
            [success |-> TRUE, data |-> ObjVal(d.count, FALSE), issues |-> <<>>]
      [] schema = "string" /\ d.t = "string" ->
            [success |-> TRUE, data |-> d, issues |-> <<>>]
      [] OTHER ->
            [success |-> FALSE, data |-> Undefined, issues |-> <<"invalid_type">>]

Kinds == {"network", "timeout", "validation", "abort", "unknown"}

\* an error value: a ZodFetchError (zfe) or a raw error of the platform
Err(zfe, name, message, cause, status, statusText, data, issues) ==
    [zfe |-> zfe, name |-> name, message |-> message, cause |-> cause,
     status |-> status, statusText |-> statusText, data |-> data, issues |-> issues]

ZodFetchError(message, cause, status, statusText, data, issues) ==
    Err(TRUE, "ZodFetchError", message, cause, status, statusText, data, issues)

RawError(name, message) ==
    Err(FALSE, name, message, "none", NoStatus, "", Undefined, <<>>)

NoErr == Err(FALSE, "none", "", "none", NoStatus, "", Undefined, <<>>)

AbortError == RawError("AbortError", "This operation was aborted")

\* what fetch() rejects with when the transport fails; the message differs
\* between platforms ("Failed to fetch" in browsers, "fetch failed" in Node)
FetchErrors ==
    {RawError("TypeError", "Failed to fetch"), RawError("TypeError", "fetch failed")}

(***************************************************************************)
(* Inputs                                                                  *)
(***************************************************************************)
Statuses == {200, 299, 404, 500, 503}

BodyTexts == {<<"{count:1}">>, <<"{count:1,x:0}">>, <<"oops">>}

\* the reason phrase the server sends with a status
ReasonPhrase(status) ==
    CASE status = 200 -> "OK"
      [] status = 404 -> "Not Found"
      [] status = 500 -> "Internal Server Error"
      [] status = 503 -> "Service Unavailable"
      [] OTHER -> ""

Response(status, json, text, hasBody) ==
    [status |-> status, statusText |-> ReasonPhrase(status), json |-> json,
     text |-> text, hasBody |-> hasBody]

Responses == {Response(st, j, t, TRUE) : st \in Statuses, j \in BOOLEAN, t \in BodyTexts}

NoResp == [status |-> NoStatus, statusText |-> "", json |-> FALSE, text |-> <<>>,
           hasBody |-> FALSE]

\* options.retry: omitted, a bare number, or {attempts, delay?, backoff?}
Retry(form, attempts, delay, backoff) ==
    [form |-> form, attempts |-> attempts, delay |-> delay, backoff |-> backoff]

RetryInputs ==
    {Retry("omitted", 0, NoStatus, "undefined")}
    \cup {Retry("number", n, NoStatus, "undefined") : n \in 0..MaxAttempts}
    \cup {Retry("object", n, d, b) : n \in 0..MaxAttempts, d \in {NoStatus, 0, 100},
                                     b \in {"undefined", "linear", "exponential"}}
    \cup {Retry("object", n, DefaultDelay, "linear") : n \in 0..MaxAttempts}

\* options.signal: none, a live signal, or a signal that is aborted already
SignalInputs == {"none", "live", "aborted"}

(***************************************************************************)
(* State                                                                   *)
(***************************************************************************)
VARIABLES
    op,          \* which operation this request is: "fetch", "stream", "upload"
    opts,        \* the options object the caller passed
    pc,          \* where the async function stands
    extAborted,  \* options.signal.aborted
    abortPc,     \* where the function stood when options.signal was aborted
    listeners,   \* the attempts whose 'abort' listener is registered on options.signal
    aborted,     \* the attempts whose own AbortController has been aborted
    timers,      \* the attempts whose timeout timer is scheduled
    firedTimers, \* the attempts whose timeout timer has fired
    attempt,     \* let attempt
    resp,        \* const response of the current attempt
    data,        \* let data of the current attempt
    waiting,     \* the delay of the pending wait(), 0 when none
    result,      \* the promise the caller holds
    settleCount, \* how many times the function returned or threw
    calls,       \* the number of fetch() / xhr.send() calls made
    delays,      \* the backoff delays waited, in order
    hist,        \* how each finished attempt ended, in order
    schemaRuns,  \* the response statuses whose payload was given to the schema
    frags,       \* stream: the body fragments the reader has still to deliver
    pending,     \* stream: the TextDecoder holds the first byte of a character
    chunk,       \* stream: const chunk, the decoded text of the fragment just read
    fragsRead,   \* stream: the decoded texts of the fragments read so far
    chunks,      \* stream: the values onChunk was called with, in order
    call,        \* the call made on a createZodFetchClient() object, if any
    zopts,       \* the options object zFetch() is called with
    heap,        \* the header collections alive, by the reference that holds them
    request,     \* the url and init that fetch() is called with
    reqs,        \* two concurrent zFetch calls: the locals of each
    world        \* what the two calls can share: options objects and signals

streamVars == <<frags, pending, chunk, fragsRead, chunks>>

reqVars == <<call, zopts, heap, request, reqs, world>>

\* everything but the two concurrent calls
soloVars ==
    <<op, opts, pc, extAborted, abortPc, listeners, aborted, timers, firedTimers,
      attempt, resp, data, waiting, result, settleCount, calls, delays, hist,
      schemaRuns, frags, pending, chunk, fragsRead, chunks, call, zopts, heap,
      request>>

vars ==
    <<op, opts, pc, extAborted, abortPc, listeners, aborted, timers, firedTimers,
      attempt, resp, data, waiting, result, settleCount, calls, delays, hist,
      schemaRuns, frags, pending, chunk, fragsRead, chunks, call, zopts, heap,
      request, reqs, world>>

Pending == [state |-> "pending", value |-> Undefined, err |-> NoErr]

Resolved(v) == [state |-> "resolved", value |-> v, err |-> NoErr]

Rejected(e) == [state |-> "rejected", value |-> Undefined, err |-> e]

\* how an attempt ended, as far as the retry decision reads it
Tag(name, cause, status) == [name |-> name, cause |-> cause, status |-> status]

TagOf(e) == Tag(e.name, e.cause, e.status)

\* init.signal?.aborted
SignalAborted == opts.signal # "none" /\ extAborted

(***************************************************************************)
(* zFetch: the pure parts                                                  *)
(***************************************************************************)
\* response.ok
IsOkOnly200(status) == status = 200

IsOk(status) == status >= 200 /\ status <= 299

NormalizeRetryExponential(retry) ==
    CASE retry.form = "number" ->
            [attempts |-> retry.attempts, delay |-> 1000, backoff |-> "exponential"]
      [] retry.form = "object" ->
            [attempts |-> retry.attempts, delay |-> retry.delay, backoff |-> retry.backoff]
      [] OTHER -> [attempts |-> 0, delay |-> 0, backoff |-> "linear"]

\* const retryConfig = typeof retry === "number" ? ... : retry || {...}
NormalizeRetry(retry) ==
    CASE retry.form = "number" ->
            [attempts |-> retry.attempts, delay |-> 1000, backoff |-> "linear"]
      [] retry.form = "object" ->
            [attempts |-> retry.attempts, delay |-> retry.delay, backoff |-> retry.backoff]
      [] OTHER -> [attempts |-> 0, delay |-> 0, backoff |-> "linear"]

RetryConfig == NormalizeRetry(opts.retry)

IsAbortTimeoutError(e) == ~e.zfe /\ e.name = "TimeoutError"

\* const isAbort = error instanceof Error && error.name === "AbortError"
IsAbort(e) == ~e.zfe /\ e.name = "AbortError"

\* const isTimeout = isAbort && !init.signal?.aborted
IsTimeout(e, sigAborted) == IsAbort(e) /\ ~sigAborted

EligibleAnyZodFetchError(e, sigAborted) ==
    \/ IsTimeout(e, sigAborted)
    \/ ~e.zfe /\ e.name = "TypeError" /\ e.message = "Failed to fetch"
    \/ e.zfe

EligibleFrom400(e, sigAborted) ==
    \/ IsTimeout(e, sigAborted)
    \/ ~e.zfe /\ e.name = "TypeError" /\ e.message = "Failed to fetch"
    \/ e.zfe /\ e.status # NoStatus /\ e.status # 0 /\ e.status >= 400

\* the three retry-eligible failures
Eligible(e, sigAborted) ==
    \/ IsTimeout(e, sigAborted)
    \/ ~e.zfe /\ e.name = "TypeError" /\ e.message = "Failed to fetch"
    \/ e.zfe /\ e.status # NoStatus /\ e.status # 0 /\ e.status >= 500

ShouldRetryOffByOne(att, cfg, e, sigAborted) ==
    att < cfg.attempts /\ Eligible(e, sigAborted)

\* const shouldRetry = attempt <= retryConfig.attempts && (...)
ShouldRetry(att, cfg, e, sigAborted) ==
    att <= cfg.attempts /\ Eligible(e, sigAborted)

CatchOutcomeRetryFirst(att, cfg, e, sigAborted) ==
    IF att <= cfg.attempts /\ e.zfe /\ e.status >= 500 THEN "retry"
    ELSE IF sigAborted THEN "abort"
    ELSE IF ShouldRetry(att, cfg, e, sigAborted) THEN "retry"
    ELSE "throw"

\* the order of the catch block: the caller's abort first, then the retry,
\* then the error to throw
CatchOutcome(att, cfg, e, sigAborted) ==
    IF sigAborted THEN "abort"
    ELSE IF ShouldRetry(att, cfg, e, sigAborted) THEN "retry"
    ELSE "throw"

\* retryConfig.delay || 1000
BaseDelay(cfg) == IF cfg.delay = NoStatus \/ cfg.delay = 0 THEN DefaultDelay ELSE cfg.delay

\* retryConfig.backoff === "exponential" ? Math.pow(2, attempt - 1) : 1
BackoffFactor(cfg, att) == IF cfg.backoff = "exponential" THEN 2 ^ (att - 1) ELSE 1

BackoffDelayNone(cfg, att) == 0

\* delay * backoff
BackoffDelay(cfg, att) == BaseDelay(cfg) * BackoffFactor(cfg, att)

AbortFailure == ZodFetchError("Request aborted", "abort", NoStatus, "", Undefined, <<>>)

TimeoutFailure == ZodFetchError("Request timed out", "timeout", NoStatus, "", Undefined, <<>>)

FinalErrorTimeoutForAll(e, sigAborted) ==
    IF e.zfe THEN e ELSE TimeoutFailure

FinalErrorWrapsAll(e, sigAborted) ==
    IF IsTimeout(e, sigAborted) THEN TimeoutFailure
    ELSE ZodFetchError(e.message, "network", NoStatus, "", ErrVal(e), <<>>)

\* what the catch block throws once it neither aborts nor retries
FinalError(e, sigAborted) ==
    IF e.zfe THEN e
    ELSE IF IsTimeout(e, sigAborted) THEN TimeoutFailure
    ELSE ZodFetchError(e.message, "network", NoStatus, "", ErrVal(e), <<>>)

StatusFailure(r, errorData) ==
    ZodFetchError("Request failed with status", "network", r.status, r.statusText,
                  errorData, <<>>)

ValidationFailure(d, issues) ==
    ZodFetchError("Validation error", "validation", NoStatus, "", d, issues)

ReturnedValueUnvalidated(r, d) == d

\* return result.data
ReturnedValue(r, d) == r.data

(***************************************************************************)
(* zFetch: the steps                                                       *)
(***************************************************************************)
ClearTimeoutLeaks(ts, id) == ts

\* clearTimeout(timeoutId)
ClearTimeout(ts, id) == ts \ {id}

Settle(r) ==
    /\ pc' = r.state
    /\ result' = r
    /\ settleCount' = settleCount + 1

\* the catch block of the attempt loop, entered with the error of this attempt
Catch(e) ==
    /\ timers' = ClearTimeout(timers, attempt)
    /\ hist' = Append(hist, TagOf(e))
    /\ resp' = NoResp
    /\ data' = Undefined
    /\ CASE CatchOutcome(attempt, RetryConfig, e, SignalAborted) = "abort" ->
               Settle(Rejected(AbortFailure)) /\ waiting' = waiting
         [] CatchOutcome(attempt, RetryConfig, e, SignalAborted) = "retry" ->
               /\ pc' = "wait"
               /\ waiting' = BackoffDelay(RetryConfig, attempt)
               /\ UNCHANGED <<result, settleCount>>
         [] OTHER ->
               Settle(Rejected(FinalError(e, SignalAborted))) /\ waiting' = waiting

\* new Headers(...), serializeBody(...), new URL(url.toString()), retryConfig
Setup ==
    /\ op = "fetch" /\ pc = "start"
    /\ IF opts.urlValid
       THEN pc' = "loop" /\ UNCHANGED <<result, settleCount>>
       ELSE Settle(Rejected(RawError("TypeError", "Invalid URL")))
    /\ UNCHANGED streamVars
    /\ UNCHANGED <<reqVars, abortPc, op, opts, extAborted, listeners, aborted, timers, firedTimers,
                   attempt, resp, data, waiting, calls, delays, hist, schemaRuns>>

\* attempt++, a fresh controller, its timer, the listener on the caller's signal,
\* and the fetch() call
BeginAttempt ==
    /\ op = "fetch" /\ pc = "loop"
    /\ calls < CallCap
    /\ attempt' = attempt + 1
    /\ timers' = timers \cup {attempt + 1}
    /\ listeners' = IF opts.signal # "none" THEN listeners \cup {attempt + 1} ELSE listeners
    /\ calls' = calls + 1
    /\ pc' = "inflight"
    /\ UNCHANGED streamVars
    /\ UNCHANGED <<reqVars, abortPc, op, opts, extAborted, aborted, firedTimers, resp, data, waiting,
                   result, settleCount, delays, hist, schemaRuns>>

\* setTimeout(() => controller.abort(), timeout) fires
TimerFire ==
    /\ \E t \in timers :
          /\ timers' = timers \ {t}
          /\ firedTimers' = firedTimers \cup {t}
          /\ aborted' = aborted \cup {t}
    /\ UNCHANGED streamVars
    /\ UNCHANGED <<reqVars, abortPc, op, opts, pc, extAborted, listeners, attempt, resp, data, waiting,
                   result, settleCount, calls, delays, hist, schemaRuns>>

\* the caller aborts options.signal: every registered listener runs
ExternalAbort ==
    /\ opts.signal # "none" /\ ~extAborted
    /\ pc \notin {"start", "loop"}
    /\ extAborted' = TRUE
    /\ abortPc' = pc
    /\ aborted' = aborted \cup listeners
    /\ UNCHANGED streamVars
    /\ UNCHANGED <<reqVars, op, opts, pc, listeners, timers, firedTimers, attempt, resp, data,
                   waiting, result, settleCount, calls, delays, hist, schemaRuns>>

\* fetch() resolves with a response; clearTimeout(timeoutId)
FetchResponds ==
    /\ op = "fetch" /\ pc = "inflight" /\ attempt \notin aborted
    /\ \E r \in Responses : resp' = r
    /\ timers' = ClearTimeout(timers, attempt)
    /\ pc' = "body"
    /\ UNCHANGED streamVars
    /\ UNCHANGED <<reqVars, abortPc, op, opts, extAborted, listeners, aborted, firedTimers, attempt, data,
                   waiting, result, settleCount, calls, delays, hist, schemaRuns>>

\* fetch() rejects because the transport failed
FetchFails ==
    /\ op = "fetch" /\ pc = "inflight" /\ attempt \notin aborted
    /\ \E e \in FetchErrors : Catch(e)
    /\ UNCHANGED streamVars
    /\ UNCHANGED <<reqVars, abortPc, op, opts, extAborted, listeners, aborted, firedTimers, attempt,
                   calls, delays, schemaRuns>>

\* fetch() rejects because its controller was aborted
FetchAborted ==
    /\ op = "fetch" /\ pc = "inflight" /\ attempt \in aborted
    /\ Catch(AbortError)
    /\ UNCHANGED streamVars
    /\ UNCHANGED <<reqVars, abortPc, op, opts, extAborted, listeners, aborted, firedTimers, attempt,
                   calls, delays, schemaRuns>>

\* the body of the response is read and parsed
ReadBody ==
    /\ op = "fetch" /\ pc = "body"
    /\ IF ~IsOk(resp.status)
       THEN \* the read error of an aborted body is swallowed: no data
            Catch(StatusFailure(resp,
                    IF attempt \in aborted THEN Undefined ELSE ParseOrText(resp.text)))
       ELSE IF attempt \in aborted
            THEN Catch(AbortError)
            ELSE IF resp.json /\ ~JSONParse(resp.text).ok
                 THEN Catch(RawError("SyntaxError", "Unexpected token"))
                 ELSE /\ data' = ParseOrText(resp.text)
                      /\ pc' = "validating"
                      /\ UNCHANGED <<timers, hist, resp, waiting, result, settleCount>>
    /\ UNCHANGED streamVars
    /\ UNCHANGED <<reqVars, abortPc, op, opts, extAborted, listeners, aborted, firedTimers, attempt,
                   calls, delays, schemaRuns>>

\* the connection drops while the body is read
BodyFails ==
    /\ op = "fetch" /\ pc = "body" /\ attempt \notin aborted
    /\ IF ~IsOk(resp.status)
       THEN Catch(StatusFailure(resp, Undefined))
       ELSE Catch(RawError("TypeError", "terminated"))
    /\ UNCHANGED streamVars
    /\ UNCHANGED <<reqVars, abortPc, op, opts, extAborted, listeners, aborted, firedTimers, attempt,
                   calls, delays, schemaRuns>>

\* await schema.safeParseAsync(data), then return or throw
Validate ==
    /\ op = "fetch" /\ pc = "validating"
    /\ schemaRuns' = Append(schemaRuns, resp.status)
    /\ LET r == SafeParse(opts.schema, data) IN
         IF r.success
         THEN /\ Settle(Resolved(ReturnedValue(r, data)))
              /\ hist' = Append(hist, Tag("ok", "none", resp.status))
              /\ resp' = NoResp
              /\ data' = Undefined
              /\ UNCHANGED <<timers, waiting>>
         ELSE Catch(ValidationFailure(data, r.issues))
    /\ UNCHANGED streamVars
    /\ UNCHANGED <<reqVars, abortPc, op, opts, extAborted, listeners, aborted, firedTimers, attempt,
                   calls, delays>>

\* the wait() of the backoff is over: continue
WaitDone ==
    /\ op = "fetch" /\ pc = "wait"
    /\ delays' = Append(delays, waiting)
    /\ waiting' = 0
    /\ pc' = "loop"
    /\ UNCHANGED streamVars
    /\ UNCHANGED <<reqVars, abortPc, op, opts, extAborted, listeners, aborted, timers, firedTimers,
                   attempt, resp, data, result, settleCount, calls, hist, schemaRuns>>

(***************************************************************************)
(* zFetch.stream                                                           *)
(***************************************************************************)
\* the body fragments a server may send: runs of ASCII bytes, and the two
\* bytes C3 A9 of the character e-acute, which a fragment boundary may split
Fragments == {<<"{count:1}">>, <<"{count:2}">>, <<"oops">>, <<"C3">>, <<"A9">>}

RECURSIVE SeqsUpTo(_, _)
SeqsUpTo(S, n) ==
    IF n = 0 THEN {<<>>}
    ELSE SeqsUpTo(S, n - 1) \cup
         {Append(q, x) : q \in {r \in SeqsUpTo(S, n - 1) : Len(r) = n - 1}, x \in S}

\* decoder.decode(value, {stream: true}): the text of the bytes, an incomplete
\* character at the end being held back for the next call
RECURSIVE Decode(_, _)
Decode(held, bytes) ==
    IF bytes = <<>> THEN [text |-> <<>>, held |-> held]
    ELSE LET b == Head(bytes) IN
         IF held
         THEN IF b = "A9"
              THEN LET r == Decode(FALSE, Tail(bytes)) IN
                   [text |-> <<"e-acute">> \o r.text, held |-> r.held]
              ELSE LET r == Decode(FALSE, bytes) IN
                   [text |-> <<"U+FFFD">> \o r.text, held |-> r.held]
         ELSE IF b = "C3" THEN Decode(TRUE, Tail(bytes))
              ELSE LET r == Decode(FALSE, Tail(bytes)) IN
                   [text |-> <<IF b = "A9" THEN "U+FFFD" ELSE b>> \o r.text,
                    held |-> r.held]

ChunkCallbacksUnchecked(schema, d) == <<d>>

\* const result = await schema.safeParseAsync(data); if (result.success) onChunk(...)
ChunkCallbacks(schema, d) ==
    IF SafeParse(schema, d).success THEN <<SafeParse(schema, d).data>> ELSE <<>>

\* fetch(url.toString(), {...init, headers, body}): the caller's signal goes
\* to fetch as it is; retry and timeout are not read
StreamCall ==
    /\ op = "stream" /\ pc = "start"
    /\ calls' = calls + 1
    /\ pc' = "s_inflight"
    /\ UNCHANGED streamVars
    /\ UNCHANGED <<reqVars, abortPc, op, opts, extAborted, listeners, aborted, timers, firedTimers,
                   attempt, resp, data, waiting, result, settleCount, delays, hist,
                   schemaRuns>>

BodyIsNullNever(r) == FALSE

\* !response.body
BodyIsNull(r) == ~r.hasBody

\* the response arrives: if (!response.body) throw new Error(...)
StreamResponds ==
    /\ op = "stream" /\ pc = "s_inflight" /\ ~SignalAborted
    /\ \E st \in Statuses, hasBody \in BOOLEAN, fs \in SeqsUpTo(Fragments, MaxChunks) :
          /\ hasBody \/ fs = <<>>
          /\ resp' = Response(st, FALSE, <<>>, hasBody)
          /\ frags' = fs
          /\ IF BodyIsNull(Response(st, FALSE, <<>>, hasBody))
             THEN Settle(Rejected(RawError("Error", "Response body is null")))
             ELSE pc' = "s_reading" /\ UNCHANGED <<result, settleCount>>
    /\ UNCHANGED <<reqVars, abortPc, op, opts, extAborted, listeners, aborted, timers, firedTimers,
                   attempt, data, waiting, calls, delays, hist, schemaRuns, pending,
                   chunk, fragsRead, chunks>>

\* fetch() rejects: the transport failed, or the caller's signal is aborted
StreamFetchFails ==
    /\ op = "stream" /\ pc = "s_inflight"
    /\ IF SignalAborted
       THEN Settle(Rejected(AbortError))
       ELSE \E e \in FetchErrors : Settle(Rejected(e))
    /\ UNCHANGED streamVars
    /\ UNCHANGED <<reqVars, abortPc, op, opts, extAborted, listeners, aborted, timers, firedTimers,
                   attempt, resp, data, waiting, calls, delays, hist, schemaRuns>>

\* const { done, value } = await reader.read(); if (done) break; decode
StreamRead ==
    /\ op = "stream" /\ pc = "s_reading" /\ ~SignalAborted
    /\ IF frags = <<>>
       THEN /\ Settle(Resolved(Undefined))
            /\ UNCHANGED streamVars
       ELSE /\ LET d == Decode(pending, Head(frags)) IN
                 /\ chunk' = d.text
                 /\ pending' = d.held
                 /\ fragsRead' = Append(fragsRead, d.text)
            /\ frags' = Tail(frags)
            /\ pc' = "s_validating"
            /\ UNCHANGED <<result, settleCount, chunks>>
    /\ UNCHANGED <<reqVars, abortPc, op, opts, extAborted, listeners, aborted, timers, firedTimers,
                   attempt, resp, data, waiting, calls, delays, hist, schemaRuns>>

\* reader.read() rejects: the connection dropped, or the signal is aborted
StreamReadFails ==
    /\ op = "stream" /\ pc = "s_reading"
    /\ Settle(Rejected(IF SignalAborted THEN AbortError
                       ELSE RawError("TypeError", "terminated")))
    /\ UNCHANGED streamVars
    /\ UNCHANGED <<reqVars, abortPc, op, opts, extAborted, listeners, aborted, timers, firedTimers,
                   attempt, resp, data, waiting, calls, delays, hist, schemaRuns>>

\* JSON.parse(chunk) or the chunk itself, the schema, onChunk(result.data)
StreamDeliver ==
    /\ op = "stream" /\ pc = "s_validating"
    /\ schemaRuns' = Append(schemaRuns, resp.status)
    /\ chunks' = chunks \o ChunkCallbacks(opts.schema, ParseOrText(chunk))
    /\ chunk' = <<>>
    /\ pc' = "s_reading"
    /\ UNCHANGED <<reqVars, abortPc, op, opts, extAborted, listeners, aborted, timers, firedTimers,
                   attempt, resp, data, waiting, result, settleCount, calls, delays,
                   hist, frags, pending, fragsRead>>

(***************************************************************************)
(* zFetch.upload                                                           *)
(***************************************************************************)
UploadOkNoUpperBound(status) == status >= 200

\* xhr.status >= 200 && xhr.status < 300
UploadOk(status) == status >= 200 /\ status < 300

UploadStatusFailure(r) ==
    ZodFetchError("Upload failed with status", "network", r.status, r.statusText,
                  Undefined, <<>>)

UploadNetworkFailure ==
    ZodFetchError("Network error during upload", "network", NoStatus, "", Undefined, <<>>)

\* new XMLHttpRequest(), xhr.open("POST", url), the handlers, xhr.send(formData)
UploadSend ==
    /\ op = "upload" /\ pc = "start"
    /\ IF opts.urlValid
       THEN /\ calls' = calls + 1
            /\ pc' = "u_sent"
            /\ UNCHANGED <<result, settleCount>>
       ELSE /\ Settle(Rejected(RawError("SyntaxError", "Invalid URL")))
            /\ calls' = calls
    /\ UNCHANGED streamVars
    /\ UNCHANGED <<reqVars, abortPc, op, opts, extAborted, listeners, aborted, timers, firedTimers,
                   attempt, resp, data, waiting, delays, hist, schemaRuns>>

\* xhr.onload: the status decides; the body is parsed only on a 2xx status
XhrLoad ==
    /\ op = "upload" /\ pc = "u_sent"
    /\ \E st \in Statuses, t \in BodyTexts :
          LET r == Response(st, FALSE, t, TRUE) IN
          /\ resp' = r
          /\ IF UploadOk(st)
             THEN /\ data' = ParseOrText(t)
                  /\ pc' = "u_validating"
                  /\ UNCHANGED <<result, settleCount>>
             ELSE /\ Settle(Rejected(UploadStatusFailure(r)))
                  /\ data' = data
    /\ UNCHANGED streamVars
    /\ UNCHANGED <<reqVars, abortPc, op, opts, extAborted, listeners, aborted, timers, firedTimers,
                   attempt, waiting, calls, delays, hist, schemaRuns>>

\* xhr.onerror
XhrError ==
    /\ op = "upload" /\ pc = "u_sent"
    /\ Settle(Rejected(UploadNetworkFailure))
    /\ UNCHANGED streamVars
    /\ UNCHANGED <<reqVars, abortPc, op, opts, extAborted, listeners, aborted, timers, firedTimers,
                   attempt, resp, data, waiting, calls, delays, hist, schemaRuns>>

\* const result = await schema.safeParseAsync(data); resolve or reject
UploadValidate ==
    /\ op = "upload" /\ pc = "u_validating"
    /\ schemaRuns' = Append(schemaRuns, resp.status)
    /\ LET r == SafeParse(opts.schema, data) IN
         IF r.success
         THEN Settle(Resolved(r.data))
         ELSE Settle(Rejected(ValidationFailure(data, r.issues)))
    /\ UNCHANGED streamVars
    /\ UNCHANGED <<reqVars, abortPc, op, opts, extAborted, listeners, aborted, timers, firedTimers,
                   attempt, resp, data, waiting, calls, delays, hist>>

(***************************************************************************)
(* The request: createZodFetchClient (src/src/client.ts) and the head of   *)
(* zFetch, which builds what fetch() is called with                        *)
(***************************************************************************)
\* a string whose prefix or suffix the code reads is a sequence of characters
HttpPrefix == <<"h", "t", "t", "p">>

SchemeHttp == HttpPrefix \o <<":", "/", "/">>

SchemeHttps == HttpPrefix \o <<"s", ":", "/", "/">>

StartsWith(s, p) == Len(s) >= Len(p) /\ SubSeq(s, 1, Len(p)) = p

EndsWith(s, p) == Len(s) >= Len(p) /\ SubSeq(s, Len(s) - Len(p) + 1, Len(s)) = p

\* a string | URL argument
UrlArg(isURL, text) == [isURL |-> isURL, text |-> text]

\* an object is a function from its keys; {...a, ...b} and the rest pattern
Spread(a, b) ==
    [k \in DOMAIN a \cup DOMAIN b |-> IF k \in DOMAIN b THEN b[k] ELSE a[k]]

Rest(o, keys) == [k \in DOMAIN o \ keys |-> o[k]]

EmptyObject == [k \in {} |-> 0]

\* header names are case-insensitive: Headers stores them in lower case
Lower(name) ==
    CASE name = "Content-Type" -> "content-type"
      [] name = "X-API-Key" -> "x-api-key"
      [] name = "Accept" -> "accept"
      [] OTHER -> name

\* new Headers(init): init is a key of the heap, or absent
NewHeaders(o, h) ==
    IF "headers" \notin DOMAIN o THEN EmptyObject
    ELSE LET init == h[o.headers] IN
         [n \in {Lower(k) : k \in DOMAIN init} |->
             init[CHOOSE k \in DOMAIN init : Lower(k) = n]]

HeadersHas(hd, name) == Lower(name) \in DOMAIN hd

HeadersSet(hd, name, value) ==
    [n \in DOMAIN hd \cup {Lower(name)} |-> IF n = Lower(name) THEN value ELSE hd[n]]

\* const resolveUrl = (url: string | URL) => ...
resolveUrl(config, url) ==
    IF url.isURL THEN UrlArg(FALSE, url.text)
    ELSE IF /\ "baseURL" \in DOMAIN config /\ config.baseURL # <<>>
            /\ ~StartsWith(url.text, HttpPrefix)
         THEN LET base == IF EndsWith(config.baseURL, <<"/">>) THEN config.baseURL
                          ELSE config.baseURL \o <<"/">>
                  path == IF StartsWith(url.text, <<"/">>) THEN Tail(url.text)
                          ELSE url.text
              IN  UrlArg(FALSE, base \o path)
         ELSE url

\* the Headers object mergeOptions builds: the defaults, the request's set over
mergedHeaders(config, options, h) ==
    LET base == NewHeaders(Rest(config, {"baseURL"}), h)
        opt == NewHeaders(options, h)
    IN  [n \in DOMAIN base \cup DOMAIN opt |-> IF n \in DOMAIN opt THEN opt[n] ELSE base[n]]

\* const mergeOptions = (options = {}) => ({...restBase, ...restOpt, headers})
mergeOptions(config, options) ==
    LET restBase == Rest(Rest(config, {"baseURL"}), {"headers"})
        restOpt == Rest(options, {"headers"})
    IN  Spread(Spread(restBase, restOpt), [headers |-> "merged"])

Verbs == {"get", "post", "put", "patch", "delete"}

HttpMethod(via) ==
    CASE via = "get" -> "GET"
      [] via = "post" -> "POST"
      [] via = "put" -> "PUT"
      [] via = "patch" -> "PATCH"
      [] via = "delete" -> "DELETE"
      [] OTHER -> "undefined"

\* the single argument of client.fetch(options)
FetchArgument(c) == Spread([url |-> c.url, schema |-> c.schema], c.options)

\* the object each method of the client calls zFetch with
ClientOptions(c) ==
    IF c.via \in Verbs
    THEN Spread([url |-> resolveUrl(c.config, c.url), schema |-> c.schema,
                 method |-> HttpMethod(c.via)],
                mergeOptions(c.config, c.options))
    ELSE Spread(Spread(FetchArgument(c), [url |-> resolveUrl(c.config, c.url)]),
                mergeOptions(c.config, FetchArgument(c)))

\* a request body: what kind of value it is, and its content
Body(kind, val) == [kind |-> kind, val |-> val]

NoBody == Body("undefined", Undefined)

NullBody == Body("null", Undefined)

\* the kinds serializeBody hands on as they are, although typeof is "object"
EncodedKinds == {"Blob", "FormData", "URLSearchParams", "ReadableStream"}

\* typeof body === "object", of a body that is not null
TypeofObject(body) == body.kind \in EncodedKinds \cup {"object", "ArrayBuffer"}

\* JSON.stringify(body): an ArrayBuffer has no enumerable property
JSONStringify(body) ==
    CASE body.kind = "ArrayBuffer" -> <<"{}">>
      [] body.val = ObjVal(1, FALSE) -> <<"{count:1}">>
      [] body.val = ObjVal(2, FALSE) -> <<"{count:2}">>
      [] body.val = ObjVal(1, TRUE) -> <<"{count:1,x:0}">>
      [] OTHER -> <<"{}">>

SerializeBodyOverwrite(body, hd) ==
    IF body.kind \notin {"undefined", "null"}
    THEN IF TypeofObject(body) /\ body.kind \notin EncodedKinds
         THEN [body |-> Body("string", StrVal(JSONStringify(body))),
               headers |-> HeadersSet(hd, "Content-Type", "application/json")]
         ELSE [body |-> body, headers |-> hd]
    ELSE [body |-> NullBody, headers |-> hd]

\* serializeBody(body, headers): the body to send, and headers as it leaves them
serializeBody(body, hd) ==
    IF body.kind \notin {"undefined", "null"}
    THEN IF TypeofObject(body) /\ body.kind \notin EncodedKinds
         THEN [body |-> Body("string", StrVal(JSONStringify(body))),
               headers |-> IF ~HeadersHas(hd, "Content-Type")
                           THEN HeadersSet(hd, "Content-Type", "application/json")
                           ELSE hd]
         ELSE [body |-> body, headers |-> hd]
    ELSE [body |-> NullBody, headers |-> hd]

\* new URL(text): the text must be an absolute URL; href has at least the path /
SchemeOf(text) ==
    IF StartsWith(text, SchemeHttps) THEN SchemeHttps
    ELSE IF StartsWith(text, SchemeHttp) THEN SchemeHttp
    ELSE <<>>

AfterScheme(text) == SubSeq(text, Len(SchemeOf(text)) + 1, Len(text))

ValidURL(text) ==
    /\ SchemeOf(text) # <<>>
    /\ AfterScheme(text) # <<>>
    /\ Head(AfterScheme(text)) # "/"

Href(text) ==
    IF \E i \in 1..Len(AfterScheme(text)) : AfterScheme(text)[i] = "/" THEN text
    ELSE text \o <<"/">>

\* an optional property: absent, or one of the values
Optional(S) == {{}} \cup {{x} : x \in S}

Property(key, o) == IF o = {} THEN EmptyObject ELSE key :> (CHOOSE x \in o : TRUE)

BaseURLs == {SchemeHttp \o <<"a">>, SchemeHttp \o <<"a", "/">>}

\* relative paths, one of them beginning with the letters http, absolute URLs
\* as strings and as a URL object
UrlInputs ==
    {UrlArg(FALSE, <<"u">>), UrlArg(FALSE, <<"/", "u">>),
     UrlArg(FALSE, HttpPrefix \o <<"x">>),
     UrlArg(FALSE, SchemeHttp \o <<"b", "/", "u">>),
     UrlArg(FALSE, SchemeHttps \o <<"b">>),
     UrlArg(TRUE, SchemeHttp \o <<"b", "/">>)}

DefaultHeaders ==
    {"X-API-Key" :> "secret", "Content-Type" :> "text/plain",
     ("X-API-Key" :> "secret") @@ ("Accept" :> "json")}

RequestHeaders ==
    {"x-api-key" :> "other", "Accept" :> "xml", "Content-Type" :> "text/csv",
     "content-type" :> "text/csv"}

ClientBodies == {Body("object", ObjVal(1, FALSE)), Body("string", StrVal(<<"oops">>))}

Bodies ==
    {NullBody, Body("object", ObjVal(1, FALSE)), Body("object", ObjVal(1, TRUE)),
     Body("ArrayBuffer", Undefined), Body("string", StrVal(<<"oops">>)),
     Body("string", StrVal(<<"{count:1}">>))}
    \cup {Body(k, Undefined) : k \in EncodedKinds}

NoCall == [via |-> "none"]

NoRequest == [sent |-> FALSE]

\* a method of the client is called: it builds the options and calls zFetch
ClientMethod ==
    /\ op = "client" /\ pc = "start"
    /\ zopts' = ClientOptions(call)
    /\ heap' = [r \in DOMAIN heap \cup {"merged"} |->
                  IF r = "merged"
                  THEN mergedHeaders(call.config,
                                     IF call.via \in Verbs THEN call.options
                                     ELSE FetchArgument(call), heap)
                  ELSE heap[r]]
    /\ pc' = "zfetch"
    /\ UNCHANGED streamVars
    /\ UNCHANGED <<reqs, world, call, request, abortPc, op, opts, extAborted, listeners, aborted, timers,
                   firedTimers, attempt, resp, data, waiting, result, settleCount, calls,
                   delays, hist, schemaRuns>>

\* zFetch up to the loop: its own Headers, the serialized body, the parsed URL
BuildRequest ==
    /\ op \in {"client", "request"} /\ pc = "zfetch"
    /\ LET sb == serializeBody(IF "body" \in DOMAIN zopts THEN zopts.body ELSE NoBody,
                               NewHeaders(zopts, heap))
       IN  /\ heap' = [r \in DOMAIN heap \cup {"headers"} |->
                          IF r = "headers" THEN sb.headers ELSE heap[r]]
           /\ IF ValidURL(zopts.url.text)
              THEN /\ request' = [sent |-> TRUE, url |-> Href(zopts.url.text),
                                  method |-> IF "method" \in DOMAIN zopts
                                             THEN zopts.method ELSE "undefined",
                                  headers |-> sb.headers, body |-> sb.body]
                   /\ pc' = "sent"
                   /\ UNCHANGED <<result, settleCount>>
              ELSE /\ Settle(Rejected(RawError("TypeError", "Invalid URL")))
                   /\ request' = request
    /\ UNCHANGED streamVars
    /\ UNCHANGED <<reqs, world, call, zopts, abortPc, op, opts, extAborted, listeners, aborted, timers,
                   firedTimers, attempt, resp, data, waiting, calls, delays, hist,
                   schemaRuns>>


(***************************************************************************)
(* Two zFetch calls at once. Each call has its own locals (retryConfig,    *)
(* attempt, controller, timeoutId); the calls can share the options object *)
(* they were given and the signal in it. A call runs without interruption  *)
(* from one await to the next.                                             *)
(***************************************************************************)
PairAttempts == 1

Calls == {1, 2}

\* the locals of one call
NewCall(optionsId) ==
    [options |-> optionsId, pc |-> "start",
     retryConfig |-> NormalizeRetry(Retry("omitted", 0, NoStatus, "undefined")),
     signal |-> 0, attempt |-> 0, timer |-> FALSE, fired |-> {}, aborted |-> {},
     calls |-> 0, waiting |-> 0, delays |-> <<>>, events |-> <<>>, result |-> Pending]

NoReqs == [i \in {} |-> 0]

NoWorld == [options |-> EmptyObject, signals |-> EmptyObject]

InitNoPair == reqs = NoReqs /\ world = NoWorld

ControllerShared(i, att) == <<1, att>>

\* const controller = new AbortController(): one per attempt of each call
Controller(i, att) == <<i, att>>

\* init.signal?.aborted, read by call i
PairSignalAborted(i) ==
    reqs[i].signal # 0 /\ world.signals[reqs[i].signal].aborted

\* how an attempt ended: the error, or "ok", and init.signal?.aborted then
Event(e, sig) == [e |-> e, sig |-> sig]

\* attempt++, the controller, its timer, the listener, fetch(): the locals
\* and the signal after them
Attempted(r) ==
    [r EXCEPT !.attempt = r.attempt + 1, !.timer = TRUE, !.calls = r.calls + 1,
              !.pc = "inflight"]

Listening(i, r) ==
    IF r.signal = 0 THEN world
    ELSE [world EXCEPT !.signals[r.signal].listeners = @ \cup {Controller(i, r.attempt)}]

\* zFetch(options) up to its first await
PairCall(i) ==
    /\ UNCHANGED soloVars
    /\ op = "pair" /\ reqs[i].pc = "start"
    /\ LET o == world.options[reqs[i].options]
           r == Attempted([reqs[i] EXCEPT !.retryConfig = NormalizeRetry(o.retry),
                                          !.signal = o.signal])
       IN  /\ reqs' = [reqs EXCEPT ![i] = r]
           /\ world' = Listening(i, r)

\* the timer of the attempt fires: controller.abort()
PairTimer(i) ==
    /\ UNCHANGED soloVars
    /\ op = "pair" /\ reqs[i].timer
    /\ reqs' = [reqs EXCEPT ![i].timer = FALSE,
                            ![i].fired = @ \cup {reqs[i].attempt},
                            ![i].aborted = @ \cup {reqs[i].attempt}]
    /\ world' = world

\* a signal is aborted: its listeners run, each aborts its controller
PairAbort(s) ==
    /\ UNCHANGED soloVars
    /\ op = "pair" /\ ~world.signals[s].aborted
    /\ \E i \in Calls : reqs[i].signal = s /\ reqs[i].pc # "start"
    /\ world' = [world EXCEPT !.signals[s].aborted = TRUE]
    /\ reqs' = [i \in Calls |->
                  [reqs[i] EXCEPT !.aborted =
                      @ \cup {c[2] : c \in {l \in world.signals[s].listeners : l[1] = i}}]]

\* the catch block of call i, entered with the error e
PairCatch(i, e) ==
    LET r == reqs[i]
        sig == PairSignalAborted(i)
        ended == [r EXCEPT !.timer = FALSE, !.events = Append(@, Event(e, sig))]
        outcome == CatchOutcome(r.attempt, r.retryConfig, e, sig)
    IN  /\ reqs' = [reqs EXCEPT ![i] =
                      CASE outcome = "abort" ->
                              [ended EXCEPT !.pc = "done", !.result = Rejected(AbortFailure)]
                        [] outcome = "retry" ->
                              [ended EXCEPT !.pc = "wait",
                                            !.waiting = BackoffDelay(r.retryConfig, r.attempt)]
                        [] OTHER ->
                              [ended EXCEPT !.pc = "done",
                                            !.result = Rejected(FinalError(e, sig))]]
        /\ world' = world

PairStatuses == {404, 503}

\* the call of i is answered: a 2xx whose body the schema accepts, or a status
PairResponds(i) ==
    /\ UNCHANGED soloVars
    /\ op = "pair" /\ reqs[i].pc = "inflight" /\ reqs[i].attempt \notin reqs[i].aborted
    /\ \/ /\ reqs' = [reqs EXCEPT ![i].timer = FALSE, ![i].pc = "done",
                                  ![i].events = Append(@, Event(NoErr, PairSignalAborted(i))),
                                  ![i].result = Resolved(ObjVal(1, FALSE))]
          /\ world' = world
       \/ \E st \in PairStatuses :
             PairCatch(i, StatusFailure(Response(st, FALSE, <<"oops">>, TRUE),
                                        StrVal(<<"oops">>)))

PairFetchFails(i) ==
    /\ UNCHANGED soloVars
    /\ op = "pair" /\ reqs[i].pc = "inflight" /\ reqs[i].attempt \notin reqs[i].aborted
    /\ \E e \in FetchErrors : PairCatch(i, e)

PairFetchAborted(i) ==
    /\ UNCHANGED soloVars
    /\ op = "pair" /\ reqs[i].pc = "inflight" /\ reqs[i].attempt \in reqs[i].aborted
    /\ PairCatch(i, AbortError)

\* the wait() is over: continue, up to the next await
PairWaitDone(i) ==
    /\ UNCHANGED soloVars
    /\ op = "pair" /\ reqs[i].pc = "wait"
    /\ LET r == Attempted([reqs[i] EXCEPT !.delays = Append(@, reqs[i].waiting),
                                          !.waiting = 0])
       IN  /\ reqs' = [reqs EXCEPT ![i] = r]
           /\ world' = Listening(i, r)

(***************************************************************************)
(* The specifications                                                      *)
(***************************************************************************)
FetchOpts ==
    [retry : RetryInputs, signal : SignalInputs, schema : Schemas, urlValid : BOOLEAN]

StreamOpts ==
    [retry : {Retry("omitted", 0, NoStatus, "undefined"),
              Retry("number", MaxAttempts, NoStatus, "undefined")},
     signal : SignalInputs, schema : Schemas, urlValid : {TRUE}]

UploadOpts ==
    [retry : {Retry("omitted", 0, NoStatus, "undefined")},
     signal : {"none"}, schema : Schemas, urlValid : BOOLEAN]

InitCommon ==
    /\ extAborted = (opts.signal = "aborted")
    /\ abortPc = IF opts.signal = "aborted" THEN "before" ELSE "none"
    /\ listeners = {} /\ aborted = {} /\ timers = {} /\ firedTimers = {}
    /\ attempt = 0
    /\ resp = NoResp /\ data = Undefined /\ waiting = 0
    /\ result = Pending /\ settleCount = 0
    /\ calls = 0 /\ delays = <<>> /\ hist = <<>> /\ schemaRuns = <<>>
    /\ frags = <<>> /\ pending = FALSE /\ chunk = <<>> /\ fragsRead = <<>>
    /\ chunks = <<>>

\* the retry loop, the stream and the upload are modelled from the loop on
InitNoRequest ==
    /\ pc = "start" /\ call = NoCall /\ zopts = EmptyObject /\ heap = EmptyObject
    /\ request = NoRequest /\ InitNoPair

InitFetch == op = "fetch" /\ opts \in FetchOpts /\ InitCommon /\ InitNoRequest

InitStream == op = "stream" /\ opts \in StreamOpts /\ InitCommon /\ InitNoRequest

InitUpload == op = "upload" /\ opts \in UploadOpts /\ InitCommon /\ InitNoRequest

Init == InitFetch \/ InitStream \/ InitUpload

NextFetch ==
    \/ Setup
    \/ BeginAttempt
    \/ TimerFire
    \/ ExternalAbort
    \/ FetchResponds
    \/ FetchFails
    \/ FetchAborted
    \/ ReadBody
    \/ BodyFails
    \/ Validate
    \/ WaitDone

NextStream ==
    \/ StreamCall
    \/ StreamResponds
    \/ StreamFetchFails
    \/ StreamRead
    \/ StreamReadFails
    \/ StreamDeliver

NextUpload ==
    \/ UploadSend
    \/ XhrLoad
    \/ XhrError
    \/ UploadValidate

Next == NextFetch \/ NextStream \/ NextUpload

Spec == Init /\ [][Next]_vars

\* the request alone: a call on a client object, or zFetch called directly
PlainOpts ==
    [retry |-> Retry("omitted", 0, NoStatus, "undefined"), signal |-> "none",
     schema |-> "count", urlValid |-> TRUE]

InitClient ==
    /\ op = "client" /\ opts = PlainOpts /\ InitCommon
    /\ pc = "start" /\ InitNoPair
    /\ zopts = EmptyObject /\ request = NoRequest
    /\ \E via \in Verbs \cup {"fetch"}, base \in Optional(BaseURLs),
          dh \in Optional(DefaultHeaders), url \in UrlInputs,
          rh \in Optional(RequestHeaders), body \in Optional(ClientBodies) :
          /\ call = [via |-> via,
                     config |-> Spread(Property("baseURL", base),
                                       IF dh = {} THEN EmptyObject
                                       ELSE "headers" :> "config.headers"),
                     url |-> url, schema |-> "count",
                     options |-> Spread(Property("body", body),
                                        IF rh = {} THEN EmptyObject
                                        ELSE "headers" :> "options.headers")]
          /\ heap = Spread(Property("config.headers", dh), Property("options.headers", rh))

InitZFetch ==
    /\ op = "request" /\ opts = PlainOpts /\ InitCommon
    /\ pc = "zfetch" /\ InitNoPair
    /\ call = NoCall /\ request = NoRequest
    /\ \E url \in UrlInputs, rh \in Optional(DefaultHeaders \cup RequestHeaders),
          body \in Optional(Bodies) :
          /\ zopts = Spread(Spread([url |-> url, schema |-> "count"],
                                   Property("body", body)),
                            IF rh = {} THEN EmptyObject
                            ELSE "headers" :> "options.headers")
          /\ heap = Property("options.headers", rh)

InitRequest == InitClient \/ InitZFetch

NextRequest == ClientMethod \/ BuildRequest

RequestSpec == InitRequest /\ [][NextRequest]_vars

\* two calls: on one options object, or on two that may hold the same signal;
\* signal 1 may be aborted already
PairRetries ==
    {Retry("omitted", 0, NoStatus, "undefined"),
     Retry("number", PairAttempts, NoStatus, "undefined"),
     Retry("object", PairAttempts, 100, "exponential")}

Options(retry, signal) == [retry |-> retry, signal |-> signal]

Signal(isAborted) == [aborted |-> isAborted, listeners |-> {}]

InitPair ==
    /\ op = "pair" /\ opts = PlainOpts /\ InitCommon
    /\ pc = "start" /\ call = NoCall /\ zopts = EmptyObject /\ heap = EmptyObject
    /\ request = NoRequest
    /\ \E r1 \in PairRetries, r2 \in PairRetries, s1 \in {0, 1}, s2 \in {0, 1, 2},
          pre \in BOOLEAN, second \in {1, 2} :
          /\ second = 1 => (r2 = r1 /\ s2 = s1)
          /\ (s1 # 1 /\ s2 # 1) => ~pre
          /\ reqs = [i \in Calls |-> NewCall(IF i = 1 THEN 1 ELSE second)]
          /\ world = [options |-> [k \in {1, 2} |->
                                      IF k = 1 THEN Options(r1, s1) ELSE Options(r2, s2)],
                      signals |-> [k \in {1, 2} |-> Signal(k = 1 /\ pre)]]

NextPair ==
    \/ \E i \in Calls : PairCall(i)
    \/ \E i \in Calls : PairTimer(i)
    \/ \E s \in {1, 2} : PairAbort(s)
    \/ \E i \in Calls : PairResponds(i)
    \/ \E i \in Calls : PairFetchFails(i)
    \/ \E i \in Calls : PairFetchAborted(i)
    \/ \E i \in Calls : PairWaitDone(i)

PairSpec == InitPair /\ [][NextPair]_vars

\* zFetch alone, with the scheduling the platform guarantees: the function runs
\* on when it can, timers fire, a cancelled call rejects, a body read and a
\* wait() end. The server is free never to answer.
Fairness ==
    /\ WF_vars(Setup) /\ WF_vars(BeginAttempt) /\ WF_vars(Validate)
    /\ WF_vars(TimerFire) /\ WF_vars(FetchAborted) /\ WF_vars(ReadBody)
    /\ WF_vars(WaitDone)

FairSpec == InitFetch /\ [][NextFetch]_vars /\ Fairness

(***************************************************************************)
(* Vocabulary of the properties                                            *)
(***************************************************************************)
RECURSIVE Sum(_)
Sum(q) == IF q = <<>> THEN 0 ELSE Head(q) + Sum(Tail(q))

Last(q) == q[Len(q)]

Settled == result.state # "pending"

RejectedWith(kind) ==
    result.state = "rejected" /\ result.err.zfe /\ result.err.cause = kind

\* the retry budget N, the delay and the multiplier the caller configured
Budget == opts.retry.attempts

ConfiguredDelay ==
    IF opts.retry.form = "object" /\ opts.retry.delay # NoStatus
    THEN opts.retry.delay ELSE DefaultDelay

Multiplier(k) ==
    IF opts.retry.form = "object" /\ opts.retry.backoff = "exponential"
    THEN 2 ^ (k - 1) ELSE 1

SuccessStatus(st) == st \in 200..299

\* the attempt ended with a response of status >= 500
ServerError(t) == t.name = "ZodFetchError" /\ t.cause = "network" /\ t.status >= 500

\* the attempt ended with a response whose status is neither 2xx nor >= 500
ClientError(t) ==
    /\ t.name = "ZodFetchError" /\ t.cause = "network"
    /\ t.status # NoStatus /\ ~SuccessStatus(t.status) /\ t.status < 500

\* the caller's signal was not yet aborted when an attempt began: every listener
\* was registered on a live signal
LiveAtEveryCall == abortPc \notin {"before", "wait"}

\* the caller's signal was not aborted while the request was pending
NotCancelled == abortPc \in {"none", "resolved", "rejected"}

(***************************************************************************)
(* C1  A signal that is aborted before the first network call, or that is  *)
(* aborted while a call is in flight, makes zFetch fail with kind 'abort'. *)
(* The code does not do this: see C1Claim.                                 *)
(***************************************************************************)
\* C1: once zFetch has made a call and settled, with the signal aborted before
\* the first call or during a call, the outcome is a ZodFetchError of kind abort
C1Claim ==
    (op = "fetch" /\ Settled /\ calls >= 1 /\ abortPc \in {"before", "inflight"})
        => RejectedWith("abort")

\* the half of C1 that the code keeps: an abort that arrives while fetch() is
\* pending always ends in kind abort
C1InFlight ==
    (op = "fetch" /\ Settled /\ abortPc = "inflight") => RejectedWith("abort")

(***************************************************************************)
(* C2  A server that answers every call with a status >= 500               *)
(***************************************************************************)
AllServerErrors == hist # <<>> /\ \A i \in 1..Len(hist) : ServerError(hist[i])

RetriedToExhaustion ==
    /\ calls <= Budget + 1
    /\ \A k \in 1..Len(delays) : delays[k] >= ConfiguredDelay * Multiplier(k)
    /\ Settled =>
          /\ calls = Budget + 1
          /\ Len(delays) = Budget
          /\ Sum(delays) >= Budget * ConfiguredDelay
          /\ RejectedWith("network")
          /\ result.err.status = Last(hist).status

\* C2 as stated: whenever every call was answered with a status >= 500, at most
\* N+1 calls are made, exactly N+1 once settled, the delays waited sum to at
\* least N x the configured delay, and the error is network with the 5xx status
\* (stated of the runs in which the signal was live when each call started)
C2Original ==
    (op = "fetch" /\ AllServerErrors /\ LiveAtEveryCall) => RetriedToExhaustion

\* C2 amended: the same, provided the caller's signal is not aborted while the
\* request is pending
C2Theorem == (op = "fetch" /\ AllServerErrors /\ NotCancelled) => RetriedToExhaustion

C2Witness ==
    /\ op = "fetch" /\ AllServerErrors /\ NotCancelled /\ Settled
    /\ Budget = 2 /\ calls = 3 /\ delays = <<100, 200>>
    /\ RejectedWith("network") /\ result.err.status = 500

(***************************************************************************)
(* C3  No response within the timeout on any attempt                       *)
(***************************************************************************)
NoResponseEver == hist # <<>> /\ \A i \in 1..Len(hist) : hist[i].name = "AbortError"

\* C3: when every attempt ended by cancellation and the caller's signal was never
\* aborted, each attempt was cancelled by its own timer, and zFetch settles only
\* after exactly N+1 calls, with a ZodFetchError of kind timeout
C3Theorem ==
    (op = "fetch" /\ abortPc = "none" /\ NoResponseEver) =>
        /\ calls <= Budget + 1
        /\ \A i \in 1..Len(hist) : i \in firedTimers
        /\ ~Settled => Len(hist) <= Budget
        /\ Settled => calls = Budget + 1 /\ RejectedWith("timeout")

C3Witness ==
    /\ op = "fetch" /\ abortPc = "none" /\ NoResponseEver
    /\ Budget = 2 /\ calls = 3 /\ RejectedWith("timeout")

(***************************************************************************)
(* C4  A 2xx response whose body fails the schema                          *)
(***************************************************************************)
\* C4: the step that validates a body the schema rejects, the caller not having
\* cancelled, rejects with kind validation, carrying the issues and the parsed
\* data, makes no call, and no call follows it
C4Theorem ==
    /\ [][(/\ op = "fetch" /\ pc = "validating" /\ pc' # pc
           /\ ~SafeParse(opts.schema, data).success
           /\ ~SignalAborted)
          => /\ SuccessStatus(resp.status)
             /\ result'.state = "rejected"
             /\ result'.err.zfe /\ result'.err.cause = "validation"
             /\ result'.err.issues = SafeParse(opts.schema, data).issues
             /\ result'.err.data = data
             /\ calls' = calls]_vars
    /\ [][(op = "fetch" /\ RejectedWith("validation")) => calls' = calls /\ pc' = pc]_vars

C4Witness ==
    /\ op = "fetch" /\ RejectedWith("validation") /\ Budget = 2 /\ calls = 1
    /\ result.err.issues # <<>> /\ result.err.data = StrVal(<<"oops">>)

(***************************************************************************)
(* C5  A 2xx response whose body the schema accepts                        *)
(***************************************************************************)
\* C5: the step that validates a body the schema accepts resolves with the value
\* the schema returned, makes no call, and no call follows it
C5Theorem ==
    /\ [][(/\ op = "fetch" /\ pc = "validating" /\ pc' # pc
           /\ SafeParse(opts.schema, data).success)
          => /\ SuccessStatus(resp.status)
             /\ result' = Resolved(SafeParse(opts.schema, data).data)
             /\ calls' = calls]_vars
    /\ [][(op = "fetch" /\ result.state = "resolved") => calls' = calls /\ pc' = pc]_vars

C5Witness ==
    /\ op = "fetch" /\ result = Resolved(ObjVal(1, FALSE)) /\ Budget = 2 /\ calls = 1
    /\ Last(hist).status = 299

(***************************************************************************)
(* C6  A status outside 200-299 and below 500                              *)
(***************************************************************************)
\* C6 as stated: an attempt that ends with such a status ends the request at once,
\* with kind network and that status, after one call when it is the first attempt
\* (stated of the runs in which the signal was live when each call started)
C6Original ==
    (op = "fetch" /\ hist # <<>> /\ ClientError(Last(hist)) /\ LiveAtEveryCall) =>
        /\ RejectedWith("network")
        /\ result.err.status = Last(hist).status
        /\ calls = Len(hist)

\* C6 amended: such a status is never retried; the error is network with that
\* status unless the caller's signal is aborted when the failure is handled, and
\* then it is abort
C6Theorem ==
    (op = "fetch" /\ hist # <<>> /\ ClientError(Last(hist))) =>
        /\ calls = Len(hist)
        /\ IF NotCancelled
           THEN RejectedWith("network") /\ result.err.status = Last(hist).status
           ELSE RejectedWith("abort")

C6Witness ==
    /\ op = "fetch" /\ hist # <<>> /\ ClientError(Last(hist)) /\ NotCancelled
    /\ Budget = 2 /\ calls = 1
    /\ RejectedWith("network") /\ result.err.status = 404

(***************************************************************************)
(* C7  Every failure surfaced is a ZodFetchError                           *)
(***************************************************************************)
\* C7: whatever zFetch, zFetch.stream or zFetch.upload rejects with is a
\* ZodFetchError whose kind is one of the five kinds
C7Claim ==
    result.state = "rejected" => result.err.zfe /\ result.err.cause \in Kinds

(***************************************************************************)
(* C8  Every zFetch call settles, exactly once, with a value or a          *)
(* ZodFetchError                                                           *)
(***************************************************************************)
\* C8: under FairSpec every zFetch call settles eventually, never settles twice,
\* and what it rejects with is a ZodFetchError
C8Claim ==
    /\ [](settleCount <= 1)
    /\ [](result.state = "rejected" => result.err.zfe)
    /\ <>[](Settled /\ settleCount = 1)

\* the part of C8 that the code keeps: the request settles eventually and once,
\* also when the server never answers
C8Termination == [](settleCount <= 1) /\ <>[](Settled /\ settleCount = 1)

C8NeverAnswered ==
    /\ RejectedWith("timeout") /\ Budget = MaxAttempts /\ calls = MaxAttempts + 1

(***************************************************************************)
(* C9  zFetch.stream: one onChunk call per accepted fragment, in order     *)
(***************************************************************************)
\* the values onChunk is owed for the decoded fragments texts, in order
RECURSIVE OwedChunks(_, _)
OwedChunks(schema, texts) ==
    IF texts = <<>> THEN <<>>
    ELSE LET d == IF JSONParse(Head(texts)).ok THEN JSONParse(Head(texts)).val
                  ELSE StrVal(Head(texts))
             r == SafeParse(schema, d)
         IN  (IF r.success THEN <<r.data>> ELSE <<>>) \o OwedChunks(schema, Tail(texts))

C10Theorem ==
    (op = "upload") =>
        /\ settleCount <= 1
        /\ \A i \in 1..Len(schemaRuns) : SuccessStatus(schemaRuns[i])
        /\ (Settled /\ calls = 1) =>
              /\ settleCount = 1
              /\ IF resp = NoResp
                 THEN RejectedWith("network") /\ result.err.status = NoStatus
                 ELSE IF ~SuccessStatus(resp.status)
                      THEN /\ RejectedWith("network")
                           /\ result.err.status = resp.status
                           /\ result.err.statusText = resp.statusText
                           /\ schemaRuns = <<>>
                      ELSE LET r == SafeParse(opts.schema, ParseOrText(resp.text)) IN
                           IF r.success
                           THEN result = Resolved(r.data)
                           ELSE /\ RejectedWith("validation")
                                /\ result.err.issues = r.issues
        /\ pc = "u_validating" => SuccessStatus(resp.status)

C10Witness ==
    /\ op = "upload" /\ Settled /\ RejectedWith("network")
    /\ result.err.status = 404 /\ result.err.statusText = "Not Found"
    /\ schemaRuns = <<>>

(***************************************************************************)
(* C11  createZodFetchClient: the URL and the headers of every method      *)
(***************************************************************************)
\* an absolute http URL, against a path relative to baseURL
Absolute(u) ==
    u.isURL \/ StartsWith(u.text, SchemeHttp) \/ StartsWith(u.text, SchemeHttps)

\* base and path joined by exactly one slash
Joined(base, path) ==
    (IF EndsWith(base, <<"/">>) THEN SubSeq(base, 1, Len(base) - 1) ELSE base)
        \o <<"/">> \o (IF StartsWith(path, <<"/">>) THEN Tail(path) ELSE path)

HasBaseURL == "baseURL" \in DOMAIN call.config

TargetURL ==
    IF Absolute(call.url) THEN Href(call.url.text)
    ELSE Href(Joined(call.config.baseURL, call.url.text))

\* the headers the client was created with, and those given with the call
ConfigHeaders ==
    IF "config.headers" \in DOMAIN heap THEN heap["config.headers"] ELSE EmptyObject

CallHeaders ==
    IF "options.headers" \in DOMAIN heap THEN heap["options.headers"] ELSE EmptyObject

DefaultsPresent ==
    \A k \in DOMAIN ConfigHeaders :
        /\ Lower(k) \in DOMAIN request.headers
        /\ request.headers[Lower(k)] =
              IF \E j \in DOMAIN CallHeaders : Lower(j) = Lower(k)
              THEN CallHeaders[CHOOSE j \in DOMAIN CallHeaders : Lower(j) = Lower(k)]
              ELSE ConfigHeaders[k]

ClientCallDone == op = "client" /\ pc \in {"sent", "rejected"}

\* C11: once a call of any method of the client, with an absolute URL or with a
\* path and a baseURL, is over, fetch() was called with the absolute URL as
\* given or the path joined onto baseURL, and with every default header, its
\* value the request's own where the request has a header of the same name
C11Claim ==
    (ClientCallDone /\ (Absolute(call.url) \/ HasBaseURL)) =>
        /\ request.sent
        /\ request.url = TargetURL
        /\ DefaultsPresent

\* what the code keeps of C11: the five verb methods, for a path that does not
\* begin with the letters http, and every method for an absolute URL
C11Verbs ==
    (/\ ClientCallDone
     /\ \/ Absolute(call.url)
        \/ HasBaseURL /\ call.via \in Verbs /\ ~StartsWith(call.url.text, HttpPrefix))
    => /\ request.sent
       /\ request.url = TargetURL
       /\ DefaultsPresent

C11FetchLosesBaseURL ==
    /\ op = "client" /\ call.via = "fetch" /\ HasBaseURL
    /\ call.url = UrlArg(FALSE, <<"/", "u">>)
    /\ result = Rejected(RawError("TypeError", "Invalid URL"))

(***************************************************************************)
(* C12  Body serialization and the Content-Type header                     *)
(***************************************************************************)
\* the body and the header collection zFetch was given
GivenBody == IF "body" \in DOMAIN zopts THEN zopts.body ELSE NoBody

GivenHeaders == IF "headers" \in DOMAIN zopts THEN heap[zopts.headers] ELSE EmptyObject

GivenNames == {Lower(k) : k \in DOMAIN GivenHeaders}

GivenValue(n) == GivenHeaders[CHOOSE k \in DOMAIN GivenHeaders : Lower(k) = n]

Structured(b) == b.kind \notin {"undefined", "null", "string"} \cup EncodedKinds

\* C12: in the request zFetch sends, a structured body has become its JSON text,
\* Content-Type is the caller's when the caller gave one and application/json
\* otherwise, and the other headers are the caller's; any other body is the one
\* given and the headers are exactly the caller's; and no step changes a header
\* collection that exists already
C12Theorem ==
    /\ [](request.sent =>
            IF Structured(GivenBody)
            THEN /\ request.body.kind = "string"
                 /\ IF GivenBody.kind = "object"
                    THEN /\ JSONParse(request.body.val.s).ok
                         /\ JSONParse(request.body.val.s).val = GivenBody.val
                    ELSE request.body.val.s = <<"{}">>
                 /\ DOMAIN request.headers = GivenNames \cup {"content-type"}
                 /\ \A n \in GivenNames : request.headers[n] = GivenValue(n)
                 /\ "content-type" \notin GivenNames
                       => request.headers["content-type"] = "application/json"
            ELSE /\ request.body = IF GivenBody = NoBody THEN NullBody ELSE GivenBody
                 /\ DOMAIN request.headers = GivenNames
                 /\ \A n \in GivenNames : request.headers[n] = GivenValue(n))
    /\ [][\A r \in DOMAIN heap : r \in DOMAIN heap' /\ heap'[r] = heap[r]]_vars

C12Witness ==
    /\ op = "request" /\ request.sent
    /\ GivenBody = Body("object", ObjVal(1, TRUE))
    /\ GivenHeaders = ("Content-Type" :> "text/csv")
    /\ request.body = Body("string", StrVal(<<"{count:1,x:0}">>))
    /\ request.headers = ("content-type" :> "text/csv")
    /\ heap["options.headers"] = ("Content-Type" :> "text/csv")

(***************************************************************************)
(* C13  The caller's abort reaches the controller of the call in flight    *)
(***************************************************************************)
\* C13: whenever the caller's signal is aborted and a call of zFetch is in
\* flight, the controller of that call is aborted
C13Claim ==
    (op = "fetch" /\ pc = "inflight" /\ SignalAborted) => attempt \in aborted

\* what the code keeps of C13: an abort that arrives while the call is in flight
\* aborts its controller in the same step
C13DuringCall ==
    (op = "fetch" /\ pc = "inflight" /\ abortPc = "inflight") => attempt \in aborted

(***************************************************************************)
(* C14  No network call once the caller's signal is aborted                *)
(***************************************************************************)
\* C14: no step of zFetch taken with the caller's signal aborted makes a call
C14Claim == [][(op = "fetch" /\ SignalAborted) => calls' = calls]_vars

\* what the code keeps of C14: after an abort that arrives during a call, a body
\* read or the validation, no call is made
C14AfterAttemptAbort ==
    [][(op = "fetch" /\ abortPc \in {"inflight", "body", "validating"})
          => calls' = calls]_vars

(***************************************************************************)
(* C15  Abort has priority over every other failure                        *)
(***************************************************************************)
\* an attempt fails in this step
AttemptFails == op = "fetch" /\ Len(hist') = Len(hist) + 1 /\ Last(hist').name # "ok"

\* C15: the step in which an attempt fails with the caller's signal aborted
\* rejects with kind abort and starts no backoff, whatever the failure and also
\* when the timer of the attempt has fired; and nothing follows a rejection
C15Theorem ==
    /\ [][(AttemptFails /\ SignalAborted)
            => /\ result' = Rejected(AbortFailure)
               /\ pc' = "rejected" /\ waiting' = 0 /\ calls' = calls]_vars
    /\ [][(op = "fetch" /\ RejectedWith("abort")) => calls' = calls /\ pc' = pc]_vars

\* the timer of the call and the caller's abort have both fired before the
\* failure was handled, the retry budget not used up
C15Witness ==
    /\ op = "fetch" /\ RejectedWith("abort") /\ Budget = 2 /\ calls = 1
    /\ attempt \in firedTimers /\ abortPc = "inflight"
    /\ Last(hist).name = "AbortError"

\* a 503 whose body read the caller aborted, the retry budget not used up
C15StatusWitness ==
    /\ op = "fetch" /\ RejectedWith("abort") /\ Budget = 2 /\ calls = 1
    /\ Last(hist).status = 503 /\ abortPc = "body"

(***************************************************************************)
(* C16  The schema sees the payload of 2xx responses only                  *)
(***************************************************************************)
\* C16: in zFetch, zFetch.stream and zFetch.upload every payload the schema was
\* run on came with a status in 200-299, and onChunk was only called with
\* chunks of a response with such a status
C16Claim ==
    /\ \A i \in 1..Len(schemaRuns) : SuccessStatus(schemaRuns[i])
    /\ (op = "stream" /\ chunks # <<>>) => SuccessStatus(resp.status)

\* what the code keeps of C16: zFetch and zFetch.upload run the schema on 2xx
\* payloads only, and resolve only after a 2xx response
C16FetchUpload ==
    (op \in {"fetch", "upload"}) =>
        /\ \A i \in 1..Len(schemaRuns) : SuccessStatus(schemaRuns[i])
        /\ (op = "fetch" /\ result.state = "resolved") => SuccessStatus(Last(hist).status)
        /\ (op = "upload" /\ result.state = "resolved") => SuccessStatus(resp.status)

\* a stream answered with status 500 whose chunk was handed to onChunk
C16StreamOf500 ==
    /\ op = "stream" /\ resp.status = 500 /\ chunks = <<ObjVal(1, FALSE)>>
    /\ schemaRuns = <<500>>

(***************************************************************************)
(* C17  The backoff delay                                                  *)
(***************************************************************************)
\* every wait so far, and the wait under way, lasts the configured delay times
\* the multiplier of its retry
ExactDelays ==
    /\ \A k \in 1..Len(delays) : delays[k] = ConfiguredDelay * Multiplier(k)
    /\ pc = "wait" => waiting = ConfiguredDelay * Multiplier(attempt)

\* C17: before retry k zFetch waits exactly the configured delay (1000 when none
\* is configured) times 2^(k-1) in exponential mode and times 1 in linear mode,
\* for every configured delay, 0 included
C17Claim == op = "fetch" => ExactDelays

\* what the code keeps of C17: the same for every configured delay but 0
C17NonZero == (op = "fetch" /\ opts.retry.delay # 0) => ExactDelays

\* a configured delay of 0 waited as 1000 and 2000
C17ZeroDelay ==
    /\ op = "fetch" /\ opts.retry = Retry("object", 2, 0, "exponential")
    /\ delays = <<1000, 2000>>

(***************************************************************************)
(* C18  The forms of the retry option                                      *)
(***************************************************************************)
\* the object the bare number N stands for
ExplicitRetry == Retry("object", Budget, 1000, "linear")

\* the errors a catch block can be entered with
Failures ==
    {AbortError, RawError("SyntaxError", "Unexpected token"),
     RawError("TypeError", "terminated"),
     ValidationFailure(Undefined, <<"invalid_type">>)}
    \cup FetchErrors \cup {StatusFailure(r, Undefined) : r \in Responses}

\* the retry option is read by the catch block only, through retryConfig: two
\* options agree when every catch block decides and waits the same
SameDecisions(r1, r2) ==
    \A e \in Failures, att \in 1..CallCap, sig \in BOOLEAN :
        /\ CatchOutcome(att, NormalizeRetry(r1), e, sig)
              = CatchOutcome(att, NormalizeRetry(r2), e, sig)
        /\ BackoffDelay(NormalizeRetry(r1), att) = BackoffDelay(NormalizeRetry(r2), att)

\* C18: a request made with the bare number N decides and waits in every catch
\* block as the request made with {attempts: N, delay: 1000, backoff: linear}
\* does, and both wait 1000 before every retry; a request made without retry
\* makes one call and settles at its first failure without waiting; and no
\* request makes more than attempts + 1 calls
C18Theorem ==
    (op = "fetch") =>
        /\ opts.retry.form = "number" => SameDecisions(opts.retry, ExplicitRetry)
        /\ (opts.retry.form = "number" \/ opts.retry = ExplicitRetry) =>
              /\ \A k \in 1..Len(delays) : delays[k] = 1000
              /\ pc = "wait" => waiting = 1000
        /\ opts.retry.form = "omitted" =>
              /\ calls <= 1 /\ delays = <<>> /\ pc # "wait"
              /\ hist # <<>> => Settled /\ calls = 1
        /\ calls <= Budget + 1

C18Witness ==
    /\ op = "fetch" /\ opts.retry = Retry("number", 2, NoStatus, "undefined")
    /\ calls = 3 /\ delays = <<1000, 1000>> /\ RejectedWith("network")
    /\ result.err.status = 503

\* the same run of the request made with the object
C18WitnessExplicit ==
    /\ op = "fetch" /\ opts.retry = Retry("object", 2, 1000, "linear")
    /\ calls = 3 /\ delays = <<1000, 1000>> /\ RejectedWith("network")
    /\ result.err.status = 503

\* a request without retry whose only call was never answered
C18WitnessOmitted ==
    /\ op = "fetch" /\ opts.retry.form = "omitted" /\ calls = 1
    /\ RejectedWith("timeout")

(***************************************************************************)
(* C19  The timeout timers                                                 *)
(***************************************************************************)
\* C19: at most one timeout timer of a zFetch request is scheduled, it is the
\* timer of the current attempt and that attempt's call is in flight; none is
\* scheduled before the first attempt, while a body is read or validated,
\* during a backoff delay, or once the request has settled
C19Theorem ==
    (op = "fetch") =>
        /\ Cardinality(timers) <= 1
        /\ timers \subseteq {attempt}
        /\ pc # "inflight" => timers = {}
        /\ pc = "inflight" => (timers = {attempt} \/ attempt \in firedTimers)

\* a backoff delay after the second attempt: the timer of the first attempt has
\* fired, the timer of the second was cleared when the call failed
C19Witness ==
    /\ op = "fetch" /\ pc = "wait" /\ attempt = 2 /\ timers = {}
    /\ firedTimers = {1} /\ Len(hist) = 2 /\ Last(hist).name = "TypeError"

(***************************************************************************)
(* C20  Retries are sequential, a full delay apart                         *)
(***************************************************************************)
\* C20: the calls made exceed the attempts finished by at most one; and a call
\* after the first is started only when every earlier attempt has finished and
\* the wait started at the failure of the last one has run to its end, a wait
\* of the configured delay times the multiplier at least
C20Theorem ==
    /\ []((op = "fetch") => (calls - Len(hist) \in {0, 1} /\ Len(delays) <= Len(hist)))
    /\ []((op = "fetch" /\ pc = "wait") => (calls = Len(hist) /\ Len(delays) = calls - 1))
    /\ [][(op = "fetch" /\ calls' = calls + 1 /\ calls >= 1)
            => /\ Len(hist) = calls
               /\ Len(delays) = calls
               /\ waiting = 0
               /\ delays[calls] >= ConfiguredDelay * Multiplier(calls)]_vars

C20Witness ==
    /\ op = "fetch" /\ pc = "inflight" /\ calls = 3 /\ Len(hist) = 2
    /\ opts.retry = Retry("object", 2, 100, "exponential")
    /\ delays = <<100, 200>>

(***************************************************************************)
(* C21  Retries are invisible on success                                   *)
(***************************************************************************)
\* the attempt ended with a failure of a retry-eligible sort
EligibleFailure(t) ==
    t.name \in {"AbortError", "TypeError"} \/ ServerError(t)

\* C21: the step that validates an accepted body, whatever attempts failed
\* before, resolves with the value the schema returned; and a request that has
\* resolved after k attempts made k <= attempts + 1 calls, the first k-1 of
\* which failed in a retry-eligible way and were each followed by one wait, and
\* holds the validated value of the last response and no error
C21Theorem ==
    /\ [][(/\ op = "fetch" /\ pc = "validating" /\ pc' # pc
           /\ SafeParse(opts.schema, data).success)
          => /\ result' = Resolved(SafeParse(opts.schema, data).data)
             /\ Len(hist') = calls /\ Last(hist').name = "ok"]_vars
    /\ []((op = "fetch" /\ result.state = "resolved") =>
            /\ result.err = NoErr
            /\ SafeParse(opts.schema, result.value).success
            /\ calls = Len(hist) /\ calls <= Budget + 1
            /\ Len(delays) = calls - 1
            /\ Last(hist).name = "ok" /\ SuccessStatus(Last(hist).status)
            /\ \A i \in 1..(Len(hist) - 1) : EligibleFailure(hist[i]))

\* resolved at the third attempt, after a 503 and a call that timed out
C21Witness ==
    /\ op = "fetch" /\ result = Resolved(ObjVal(1, FALSE)) /\ Budget = 2 /\ calls = 3
    /\ Len(hist) = 3
    /\ ServerError(hist[1]) /\ hist[2].name = "AbortError" /\ 2 \in firedTimers
    /\ hist[3].status = 200 /\ Len(delays) = 2

(***************************************************************************)
(* C22  The error raised is that of the last attempt                       *)
(***************************************************************************)
\* the errors the attempt under way can end with, as the state stands
ThrownNow ==
    CASE pc = "inflight" /\ attempt \in aborted -> {AbortError}
      [] pc = "inflight" /\ attempt \notin aborted -> FetchErrors
      [] pc = "body" /\ ~SuccessStatus(resp.status) ->
            {StatusFailure(resp, ParseOrText(resp.text)), StatusFailure(resp, Undefined)}
      [] pc = "body" /\ SuccessStatus(resp.status) ->
            {AbortError, RawError("SyntaxError", "Unexpected token"),
             RawError("TypeError", "terminated")}
      [] pc = "validating" ->
            {ValidationFailure(data, SafeParse(opts.schema, data).issues)}
      [] OTHER -> {}

\* what the claim has the caller receive for the error e of the last attempt
Surfaced(e) ==
    IF e.zfe THEN e
    ELSE IF e.name = "AbortError" /\ attempt \in firedTimers THEN TimeoutFailure
    ELSE ZodFetchError(e.message, "network", NoStatus, "", ErrVal(e), <<>>)

\* the request is rejected in this step, at the end of an attempt
RejectedNow ==
    /\ op = "fetch" /\ pc \in {"inflight", "body", "validating"}
    /\ result.state = "pending" /\ result'.state = "rejected"

\* C22 as stated: whenever an attempt ends the request with an error, the error
\* is the ZodFetchError of that attempt unchanged, timeout for a cancellation by
\* the timer, network with the original error as data otherwise (stated of the
\* attempts that received a response, in the runs in which the signal was live
\* when each call started)
C22Original ==
    [][(RejectedNow /\ pc # "inflight" /\ LiveAtEveryCall)
          => \E e \in ThrownNow : result'.err = Surfaced(e)]_vars

\* C22 amended: the same, provided the caller's signal is not aborted when the
\* failure is handled
C22Theorem ==
    [][(RejectedNow /\ ~SignalAborted) => \E e \in ThrownNow : result'.err = Surfaced(e)]_vars

\* a 500, then a last attempt that timed out: the error is timeout
C22Witness ==
    /\ op = "fetch" /\ Budget = 1 /\ calls = 2 /\ ~SignalAborted /\ Len(hist) = 2
    /\ ServerError(hist[1]) /\ hist[2].name = "AbortError" /\ 2 \in firedTimers
    /\ result = Rejected(TimeoutFailure)

\* a 503 then a 404 with its body: the error is the 404 with that body
C22StatusWitness ==
    /\ op = "fetch" /\ Budget = 2 /\ calls = 2 /\ ~SignalAborted /\ Len(hist) = 2
    /\ ServerError(hist[1])
    /\ RejectedWith("network") /\ result.err.status = 404
    /\ result.err.data = ObjVal(1, FALSE)

(***************************************************************************)
(* C23  A transport that fails every call for connectivity reasons         *)
(***************************************************************************)
\* every attempt ended with the TypeError of a fetch() that could not connect,
\* and the request is settled with the error e of the last one as data
AllConnectivity(e) ==
    /\ op = "fetch" /\ NotCancelled /\ Settled
    /\ hist # <<>> /\ \A i \in 1..Len(hist) : hist[i].name = "TypeError"
    /\ result.err.data = ErrVal(e)

ExhaustedAsNetwork ==
    /\ calls = Budget + 1 /\ Len(delays) = Budget
    /\ RejectedWith("network")

\* C23: when every call failed with a connectivity error of the transport,
\* whatever its message, zFetch has made exactly N+1 calls when it rejects, with
\* kind network and the error as data
C23Claim == \A e \in FetchErrors : AllConnectivity(e) => ExhaustedAsNetwork

\* what the code keeps of C23: the same for the one message "Failed to fetch"
C23FailedToFetch ==
    AllConnectivity(RawError("TypeError", "Failed to fetch")) => ExhaustedAsNetwork

\* the TypeError "fetch failed" ends a request with budget 2 at its first call
C23NotRetried ==
    /\ AllConnectivity(RawError("TypeError", "fetch failed"))
    /\ Budget = 2 /\ calls = 1 /\ RejectedWith("network")

(***************************************************************************)
(* C24  Kind network is sound                                              *)
(***************************************************************************)
\* the request is rejected with kind network in this step
NetworkNow ==
    /\ op = "fetch" /\ result.state = "pending"
    /\ result'.state = "rejected" /\ result'.err.zfe /\ result'.err.cause = "network"

\* C24: a step that rejects with kind network is the failure of the transport
\* call itself, or the handling of a response whose status is outside 200-299
C24Claim ==
    [][NetworkNow => \/ pc = "inflight" /\ attempt \notin aborted
                     \/ pc = "body" /\ ~SuccessStatus(resp.status)]_vars

\* what the code keeps of C24: a network error that carries a status carries one
\* outside 200-299, and a body the schema rejects is never reported as network
C24WithStatus ==
    /\ [][(NetworkNow /\ result'.err.status # NoStatus)
            => pc = "body" /\ resp.status = result'.err.status
                  /\ ~SuccessStatus(resp.status)]_vars
    /\ [][NetworkNow => pc # "validating"]_vars

\* a 200 response declared as JSON whose body is not JSON: kind network
C24UnparsableBody ==
    /\ op = "fetch" /\ RejectedWith("network") /\ result.err.status = NoStatus
    /\ result.err.data = ErrVal(RawError("SyntaxError", "Unexpected token"))

(***************************************************************************)
(* C25  Kind timeout is sound                                              *)
(***************************************************************************)
\* C25: a step that rejects with kind timeout ends a call in flight whose timer
\* has fired, with the caller's signal not aborted; and a request rejected with
\* kind timeout was ended by the timer of its last attempt
C25Theorem ==
    /\ [][(/\ op = "fetch" /\ result.state = "pending"
           /\ result'.state = "rejected" /\ result'.err.cause = "timeout")
          => /\ pc = "inflight" /\ attempt \in firedTimers
             /\ ~SignalAborted /\ ~SignalAborted']_vars
    /\ []((op = "fetch" /\ RejectedWith("timeout")) =>
            /\ attempt = calls /\ attempt \in firedTimers
            /\ Len(hist) = calls /\ Last(hist).name = "AbortError"
            /\ NotCancelled)

\* a 503, then a second and last call that the timer cancelled
C25Witness ==
    /\ op = "fetch" /\ RejectedWith("timeout") /\ Budget = 1 /\ calls = 2
    /\ firedTimers = {2} /\ Len(hist) = 2 /\ ServerError(hist[1])
    /\ abortPc = "rejected"

(***************************************************************************)
(* C26  Per-attempt state does not outlive its attempt                     *)
(***************************************************************************)
\* the attempt under way, if any
LiveAttempts == IF pc \in {"inflight", "body", "validating"} THEN {attempt} ELSE {}

\* C26: the only abort listener zFetch holds on the caller's signal is that of
\* the attempt under way, none is held between attempts or once the request has
\* settled, and an abort of the signal reaches no controller but that of the
\* attempt under way
C26Claim ==
    /\ []((op = "fetch") => (listeners \subseteq LiveAttempts /\ Cardinality(listeners) <= 1))
    /\ [][(op = "fetch" /\ ~extAborted /\ extAborted')
            => aborted' \ aborted \subseteq LiveAttempts]_vars

\* what the code does: one listener per attempt started, none ever removed
C26OnePerAttempt ==
    (op = "fetch" /\ opts.signal # "none") => listeners = 1..attempt

\* a settled request of three attempts whose three listeners ran when the
\* caller aborted the signal afterwards
C26Leak ==
    /\ op = "fetch" /\ Settled /\ listeners = {1, 2, 3}
    /\ abortPc \in {"resolved", "rejected"} /\ aborted = {1, 2, 3}

(***************************************************************************)
(* C28  zFetch.stream is single-pass                                       *)
(***************************************************************************)
\* C28: whatever retry value it is given, zFetch.stream makes its one call when
\* it starts and none later, schedules no timer and no wait; and a response
\* without a body rejects the request with onChunk never called and the schema
\* never run
C28Theorem ==
    (op = "stream") =>
        /\ calls = IF pc = "start" THEN 0 ELSE 1
        /\ timers = {} /\ firedTimers = {} /\ delays = <<>> /\ waiting = 0
        /\ (resp # NoResp /\ ~resp.hasBody) =>
              /\ result.state = "rejected"
              /\ chunks = <<>> /\ schemaRuns = <<>> /\ fragsRead = <<>>

\* retry: 2 was passed, the server answered 503 without a body
C28Witness ==
    /\ op = "stream" /\ opts.retry = Retry("number", MaxAttempts, NoStatus, "undefined")
    /\ resp.status = 503 /\ ~resp.hasBody
    /\ result.state = "rejected" /\ calls = 1 /\ chunks = <<>>

(***************************************************************************)
(* C27  Two concurrent calls do not interfere                              *)
(***************************************************************************)
\* zFetch alone: what the retry option and the way each attempt ended, in
\* order, make of one request - the waits, the outcome, the attempts needed
RECURSIVE AloneFrom(_, _, _)
AloneFrom(cfg, events, k) ==
    IF k > Len(events) THEN [delays |-> <<>>, result |-> Pending, used |-> k - 1]
    ELSE LET ev == events[k] IN
         IF ev.e = NoErr
         THEN [delays |-> <<>>, result |-> Resolved(ObjVal(1, FALSE)), used |-> k]
         ELSE CASE CatchOutcome(k, cfg, ev.e, ev.sig) = "abort" ->
                      [delays |-> <<>>, result |-> Rejected(AbortFailure), used |-> k]
                [] CatchOutcome(k, cfg, ev.e, ev.sig) = "retry" ->
                      LET rest == AloneFrom(cfg, events, k + 1) IN
                      [delays |-> <<BackoffDelay(cfg, k)>> \o rest.delays,
                       result |-> rest.result, used |-> rest.used]
                [] OTHER ->
                      [delays |-> <<>>, result |-> Rejected(FinalError(ev.e, ev.sig)),
                       used |-> k]

Alone(retry, events) == AloneFrom(NormalizeRetry(retry), events, 1)

\* call i has done what zFetch alone does with its option and its events
AsAlone(i) ==
    LET r == reqs[i]
        a == Alone(world.options[r.options].retry, r.events)
    IN  /\ a.used = Len(r.events)
        /\ r.result = a.result
        /\ r.delays \o (IF r.pc = "wait" THEN <<r.waiting>> ELSE <<>>) = a.delays
        /\ r.calls = Len(r.events) + (IF r.pc = "inflight" THEN 1 ELSE 0)

\* the events of call i are of its own making: a controller of i is aborted
\* only by its own timer or by the signal i was given
OwnEvents(i) ==
    LET r == reqs[i] IN
    /\ \A a \in r.aborted : a \in r.fired \/ PairSignalAborted(i)
    /\ \A k \in 1..Len(r.events) :
          r.events[k].e = AbortError => (k \in r.fired \/ r.events[k].sig)
    /\ r.fired \subseteq 1..r.attempt /\ r.aborted \subseteq 1..r.attempt

\* C27: in every interleaving of two zFetch calls, on one options object or on
\* two, with one signal or two or none, each call's outcome, calls and waits
\* are those of zFetch alone on the call's own events, each call's events come
\* from its own server answers, timer and signal, and no step changes an
\* options object
C27Theorem ==
    /\ []((op = "pair") => \A i \in Calls : AsAlone(i) /\ OwnEvents(i))
    /\ [][world.options' = world.options]_vars

\* two calls on one options object and its signal: the first resolved at its
\* second attempt; the second, still in flight when the signal was aborted,
\* rejected with abort after one call
C27Witness ==
    /\ op = "pair" /\ reqs[1].options = 1 /\ reqs[2].options = 1
    /\ world.options[1] = Options(Retry("object", PairAttempts, 100, "exponential"), 1)
    /\ reqs[1].result = Resolved(ObjVal(1, FALSE)) /\ reqs[1].calls = 2
    /\ reqs[1].delays = <<100>>
    /\ reqs[2].result = Rejected(AbortFailure) /\ reqs[2].calls = 1
    /\ reqs[2].fired = {} /\ reqs[1].aborted = {1, 2}

\* the bridge to the one-call model: the ending of attempt k as hist records it
EventOfHist(k) ==
    Event(IF hist[k].name = "ok" THEN NoErr
          ELSE IF hist[k].name = "ZodFetchError"
               THEN ZodFetchError("", hist[k].cause, hist[k].status, "", Undefined, <<>>)
               ELSE RawError(hist[k].name, ""),
          k = Len(hist) /\ Settled /\ ~NotCancelled)

\* the attempt loop of the one-call model does what Alone says, for the runs
\* in which no fetch() or body read failed with a TypeError (hist does not keep
\* its message)
AloneIsTheLoop ==
    (/\ op = "fetch" /\ hist # <<>>
     /\ \A k \in 1..Len(hist) : hist[k].name # "TypeError") =>
        LET a == Alone(opts.retry, [k \in 1..Len(hist) |-> EventOfHist(k)]) IN
        /\ a.used = Len(hist)
        /\ a.result.state = result.state
        /\ a.result.err.cause = result.err.cause
        /\ a.result.err.status = result.err.status
        /\ a.delays = delays \o (IF pc = "wait" THEN <<waiting>> ELSE <<>>)
        /\ calls = Len(hist) + (IF pc \in {"inflight", "body", "validating"} THEN 1 ELSE 0)

====
